---- MODULE Spec2Model ----
(***************************************************************************)
(* Model of src/data.py: the Bitcoin HMM regime-detection script.          *)
(*                                                                         *)
(* The script is a straight-line batch pipeline:                           *)
(*   load_and_preprocess_data -> train_hmm -> predict_states ->            *)
(*   analyze_states -> plot_results -> printing of the fitted model.       *)
(* The state is the module-level names (data, model, scaler, states), the  *)
(* locals of the function in progress, the position of the main flow and   *)
(* the exception that ended the run, if any.                               *)
(*                                                                         *)
(* Floating-point values are modelled as records: a finite value is a      *)
(* fixed-point integer counted in units of 1/FP, and NaN and +/-Infinity   *)
(* are values of their own, because the code's behaviour turns on them     *)
(* (dropna removes NaN only; np.isnan / np.isinf are checked separately).  *)
(***************************************************************************)
EXTENDS Integers, Sequences, FiniteSets, TLC

(***************************************************************************)
(* Bounds of the model (not program constants).                            *)
(***************************************************************************)
\* Largest number of candle rows in the input file.
MaxRows == 28
\* A disturbance of the series starts within the last GlitchSpan rows.
GlitchSpan == 8
\* Fixed-point resolution: a finite float x is the integer x * FP.
FP == 100
\* Epoch second of the first candle, and the candle width (hourly candles).
EpochStart == 1500000000
CandleSecs == 3600

(***************************************************************************)
(* Program constants.                                                      *)
(***************************************************************************)
\* rolling(window=24)
Window == 24
\* train_hmm(data, n_components=4)
NComponents == 4

(***************************************************************************)
(* Floating-point values.                                                  *)
(***************************************************************************)
Fin(v) == [k |-> "fin", v |-> v]
NaN == [k |-> "nan", v |-> 0]
PosInf == [k |-> "inf", v |-> 1]
NegInf == [k |-> "inf", v |-> -1]

IsNaN(x) == x.k = "nan"
IsInf(x) == x.k = "inf"
IsFinite(x) == x.k = "fin"

\* IEEE division a / b as numpy performs it on float64 columns.
FDiv(a, b) ==
    IF IsNaN(a) \/ IsNaN(b) THEN NaN
    ELSE IF IsInf(a) THEN (IF IsInf(b) THEN NaN
                           ELSE IF (b.v < 0) = (a.v < 0) THEN PosInf ELSE NegInf)
    ELSE IF IsInf(b) THEN Fin(0)
    ELSE IF b.v = 0 THEN (IF a.v = 0 THEN NaN
                          ELSE IF a.v > 0 THEN PosInf ELSE NegInf)
    ELSE Fin((a.v * FP) \div b.v)

\* x - 1
FSubOne(x) == IF IsFinite(x) THEN Fin(x.v - FP) ELSE x

RECURSIVE SumSeq(_)
SumSeq(s) == IF s = <<>> THEN 0 ELSE Head(s) + SumSeq(Tail(s))

RECURSIVE SqrtBetween(_, _, _)
\* Largest r in lo..hi with r * r <= v (bisection).
SqrtBetween(lo, hi, v) ==
    IF lo >= hi THEN lo
    ELSE LET mid == (lo + hi + 1) \div 2
         IN IF mid * mid <= v THEN SqrtBetween(mid, hi, v)
            ELSE SqrtBetween(lo, mid - 1, v)

\* Integer square root, the fixed-point image of np.sqrt.
ISqrt(v) == IF v <= 0 THEN 0 ELSE SqrtBetween(0, v, v)

Max(a, b) == IF a >= b THEN a ELSE b

(***************************************************************************)
(* pandas operations used by load_and_preprocess_data.                     *)
(***************************************************************************)
\* pd.to_datetime(col, unit='s'): epoch seconds to a calendar timestamp.
to_datetime(s) == [k |-> "ts", day |-> s.v \div 86400, sec |-> s.v % 86400]

\* Series.pct_change(): col[t] / col[t-1] - 1; the first row has no predecessor.
pct_change(col) ==
    [i \in 1..Len(col) |-> IF i = 1 THEN NaN ELSE FSubOne(FDiv(col[i], col[i-1]))]

\* Sample standard deviation (ddof = 1) of w finite fixed-point values.
SampleStd(win) ==
    LET w == Len(win)
        s1 == SumSeq([j \in 1..w |-> win[j].v])
        s2 == SumSeq([j \in 1..w |-> win[j].v * win[j].v])
    IN IF w < 2 THEN NaN ELSE Fin(ISqrt((w * s2 - s1 * s1) \div (w * (w - 1))))

\* Series.rolling(window=w).std(): min_periods is the window, so the value is
\* defined only where the trailing w observations all exist; pandas treats
\* an infinite observation as a missing one.
rolling_std(col, w) ==
    [i \in 1..Len(col) |->
        IF i < w THEN NaN
        ELSE LET win == [j \in 1..w |-> col[i - w + j]]
             IN IF \E j \in 1..w : ~IsFinite(win[j]) THEN NaN ELSE SampleStd(win)]

\* Positions of the rows dropna keeps: those with no NaN in any column.
\* (+/-Infinity is not a missing value to pandas.)
KeptRows(cols) ==
    LET n == IF DOMAIN cols = {} THEN 0
             ELSE Len(cols[CHOOSE c \in DOMAIN cols : TRUE])
    IN SelectSeq([i \in 1..n |-> i],
                 LAMBDA i : \A c \in DOMAIN cols : ~IsNaN(cols[c][i]))

TakeRows(col, keep) == [j \in 1..Len(keep) |-> col[keep[j]]]

\* The bug of dropping a row only when every column is missing (how='all').
dropna_all(frame) ==
    LET n == Len(frame.index)
        keep == SelectSeq([i \in 1..n |-> i],
                          LAMBDA i : \A c \in DOMAIN frame.cols : IsNaN(frame.cols[c][i]))
    IN [index |-> TakeRows(frame.index, keep),
        cols |-> [c \in DOMAIN frame.cols |-> TakeRows(frame.cols[c], keep)]]

\* DataFrame.dropna(inplace=True)
dropna(frame) ==
    LET keep == KeptRows(frame.cols)
    IN [index |-> TakeRows(frame.index, keep),
        cols |-> [c \in DOMAIN frame.cols |-> TakeRows(frame.cols[c], keep)]]

\* df[name] = values
WithColumn(frame, name, values) ==
    [frame EXCEPT !.cols = [c \in DOMAIN frame.cols \cup {name} |->
                               IF c = name THEN values ELSE frame.cols[c]]]

\* df.set_index(name, inplace=True)
set_index(frame, name) ==
    [index |-> frame.cols[name],
     cols |-> [c \in DOMAIN frame.cols \ {name} |-> frame.cols[c]]]

NRows(frame) == Len(frame.index)

(***************************************************************************)
(* scikit-learn StandardScaler and hmmlearn GaussianHMM, as train_hmm and  *)
(* predict_states use them.  A matrix is a sequence of rows, a row a       *)
(* sequence of floats, one per feature.                                    *)
(***************************************************************************)
Features == <<"Returns", "Volatility", "Volume_Change">>

\* data[features].values
FeatureMatrix(d) ==
    [i \in 1..NRows(d) |-> [j \in 1..Len(Features) |-> d.cols[Features[j]][i]]]

Column(X, j) == [i \in 1..Len(X) |-> X[i][j]]

\* The bug of checking for NaN and forgetting infinity.
HasNanOnly(X) == \E i \in 1..Len(X) : \E j \in 1..Len(X[i]) : IsNaN(X[i][j])

\* np.any(np.isnan(X)) or np.any(np.isinf(X))
HasNanOrInf(X) ==
    \/ \E i \in 1..Len(X) : \E j \in 1..Len(X[i]) : IsNaN(X[i][j])
    \/ \E i \in 1..Len(X) : \E j \in 1..Len(X[i]) : IsInf(X[i][j])

\* StandardScaler validates its input: at least one sample, and no infinity
\* (NaN is let through and ignored by the statistics).
ScalerRejects(X) ==
    \/ Len(X) = 0
    \/ \E i \in 1..Len(X) : \E j \in 1..Len(X[i]) : IsInf(X[i][j])

\* Per-column statistics of StandardScaler.fit: mean_, and scale_ the
\* population standard deviation, with a zero deviation replaced by 1.0.
ColumnStats(col) ==
    LET obs == SelectSeq(col, IsFinite)
        n == Len(obs)
        s1 == SumSeq([i \in 1..n |-> obs[i].v])
        s2 == SumSeq([i \in 1..n |-> obs[i].v * obs[i].v])
        nvar == n * s2 - s1 * s1
    IN IF n = 0 THEN [mean |-> 0, scale |-> FP, zero_var |-> TRUE]
       ELSE [mean |-> s1 \div n,
             scale |-> IF nvar = 0 THEN FP ELSE Max(1, ISqrt(nvar \div (n * n))),
             zero_var |-> nvar = 0]

Unfit == [k |-> "unfit"]

\* StandardScaler().fit(X)
ScalerFit(X) ==
    [k |-> "scaler",
     n_samples_seen |-> Len(X),
     mean |-> [j \in 1..Len(Features) |-> ColumnStats(Column(X, j)).mean],
     scale |-> [j \in 1..Len(Features) |-> ColumnStats(Column(X, j)).scale]]

\* scaler.transform(X): (x - mean_) / scale_, column by column.
transform(sc, X) ==
    [i \in 1..Len(X) |->
        [j \in 1..Len(X[i]) |->
            IF IsFinite(X[i][j])
            THEN Fin(((X[i][j].v - sc.mean[j]) * FP) \div sc.scale[j])
            ELSE X[i][j]]]

\* hmm.GaussianHMM(n_components=..., covariance_type="full", n_iter=200,
\*                 tol=1e-2, random_state=42), not yet fit.
GaussianHMM(n) ==
    [k |-> "hmm", n_components |-> n, n_iter |-> 200, random_state |-> 42,
     fitted |-> FALSE, converged |-> FALSE, train |-> <<>>]

\* model.fit(X): the results the estimator can produce.  The k-means
\* initialisation needs at least n_components samples; the estimation can
\* also fail numerically, and it can stop at n_iter without converging.
\* With random_state fixed the fitted parameters are a function of the
\* training matrix, which stands for them here.
FitOutcomes(m, X) ==
    {[ok |-> FALSE, model |-> m]} \cup
    (IF Len(X) >= m.n_components
     THEN {[ok |-> TRUE,
            model |-> [m EXCEPT !.fitted = TRUE, !.converged = c, !.train = X]] :
           c \in BOOLEAN}
     ELSE {})

\* model.predict(X): one label in 0..n_components-1 per row of X.
Decodings(m, X) == [1..Len(X) -> 0..(m.n_components - 1)]

(***************************************************************************)
(* The input file.                                                         *)
(***************************************************************************)
RequiredCols == {"datetime", "close", "volume"}

\* Price and volume series the input is drawn from: a repeating base pattern,
\* optionally disturbed by a short run of zeros or of a spike.  The open/high/low columns
\* are never read by the script and, like every cell of the input, hold a
\* value; they are left out.
ClosePatterns == {<<1, 2>>, <<1, 2, 1, 1, 2>>}
VolumePatterns == {<<1>>, <<1, 2>>}

GlitchValues == {0, 3}
NoGlitch == [col |-> "none", at |-> 0, len |-> 0, val |-> 0]
Glitches(n) ==
    {NoGlitch} \cup
    [col : {"close", "volume"}, at : Max(1, n - GlitchSpan + 1)..n, len : 1..2,
     val : GlitchValues]

RawValue(pat, g, c, i) ==
    IF g.col = c /\ g.at <= i /\ i < g.at + g.len
    THEN Fin(g.val * FP)
    ELSE Fin(pat[((i - 1) % Len(pat)) + 1] * FP)

Epoch(i) == [k |-> "int", v |-> EpochStart + CandleSecs * (i - 1)]

CsvFile(present, n, cp, vp, g) ==
    [c \in present |->
        [i \in 1..n |->
            CASE c = "datetime" -> Epoch(i)
              [] c = "close" -> RawValue(cp, g, "close", i)
              [] c = "volume" -> RawValue(vp, g, "volume", i)]]

(***************************************************************************)
(* State.                                                                  *)
(***************************************************************************)
VARIABLES
    pc,       \* the statement the run is at
    csv,      \* the input file: column name -> values
    df,       \* local df of load_and_preprocess_data
    loc,      \* locals of train_hmm: X, scaler, X_scaled
    data,     \* module-level data
    model,    \* module-level model
    scaler,   \* module-level scaler
    states,   \* module-level states
    dec,      \* arguments and X_scaled of the call of predict_states
    report,   \* per-state row counts printed by analyze_states
    figure,   \* per-state masks shaded by plot_results
    err,      \* the uncaught exception, if any
    stage     \* pipeline stage reached

vars == <<pc, csv, df, loc, data, model, scaler, states, dec, report, figure,
          err, stage>>

Unbound == [k |-> "unbound"]
NoFrame == [k |-> "noframe"]
NoLocals == [k |-> "nolocals"]
NoErr == [type |-> "none", line |-> 0]

Stages == <<"RAW", "FEATURED", "STANDARDIZED", "MODEL_FIT", "DECODED", "REPORTED">>
Rank(s) == CHOOSE i \in 1..Len(Stages) : Stages[i] = s

\* The rows of the input file (0 when it has no column at all).
CsvRows ==
    IF DOMAIN csv = {} THEN 0 ELSE Len(csv[CHOOSE c \in DOMAIN csv : TRUE])

Init ==
    /\ \E present \in SUBSET RequiredCols, n \in 1..MaxRows,
          cp \in ClosePatterns, vp \in VolumePatterns :
          \E g \in Glitches(n) : csv = CsvFile(present, n, cp, vp, g)
    /\ pc = "read_csv"
    /\ df = NoFrame
    /\ loc = NoLocals
    /\ data = Unbound
    /\ model = Unbound
    /\ scaler = Unbound
    /\ states = Unbound
    /\ dec = Unbound
    /\ report = Unbound
    /\ figure = Unbound
    /\ err = NoErr
    /\ stage = "RAW"

\* The bug of retrying a failed fit instead of ending the run.
OnErrorRetry(p) == IF p = "train_fit" THEN "train_check" ELSE "aborted"

\* Where control goes when a statement raises: nothing in the script catches
\* an exception, so the run ends.
OnError(p) == "aborted"

\* An exception leaves the function in progress; its locals are gone.
Raise(type, line) ==
    /\ pc' = OnError(pc)
    /\ err' = [type |-> type, line |-> line]
    /\ df' = NoFrame
    /\ loc' = NoLocals
    /\ UNCHANGED <<csv, data, model, scaler, states, dec, report, figure, stage>>

(***************************************************************************)
(* load_and_preprocess_data(file_path), statement by statement.            *)
(***************************************************************************)
RangeIndex(n) == [i \in 1..n |-> [k |-> "range", v |-> i - 1]]

\* df = pd.read_csv(file_path)
ReadCsv ==
    /\ pc = "read_csv"
    /\ df' = [index |-> RangeIndex(CsvRows), cols |-> csv]
    /\ pc' = "to_datetime"
    /\ UNCHANGED <<csv, loc, data, model, scaler, states, dec, report, figure,
                   err, stage>>

\* df['datetime'] = pd.to_datetime(df['datetime'], unit='s')
ToDatetime ==
    /\ pc = "to_datetime"
    /\ IF "datetime" \notin DOMAIN df.cols
       THEN Raise("KeyError", 23)
       ELSE /\ df' = WithColumn(df, "datetime",
                        [i \in 1..NRows(df) |-> to_datetime(df.cols["datetime"][i])])
            /\ pc' = "set_index"
            /\ UNCHANGED <<csv, loc, data, model, scaler, states, dec, report,
                           figure, err, stage>>

\* df.set_index('datetime', inplace=True)
SetIndex ==
    /\ pc = "set_index"
    /\ df' = set_index(df, "datetime")
    /\ pc' = "returns"
    /\ UNCHANGED <<csv, loc, data, model, scaler, states, dec, report, figure,
                   err, stage>>

\* df['Returns'] = df['close'].pct_change()
CalcReturns ==
    /\ pc = "returns"
    /\ IF "close" \notin DOMAIN df.cols
       THEN Raise("KeyError", 29)
       ELSE /\ df' = WithColumn(df, "Returns", pct_change(df.cols["close"]))
            /\ pc' = "volatility"
            /\ UNCHANGED <<csv, loc, data, model, scaler, states, dec, report,
                           figure, err, stage>>

\* df['Volatility'] = df['Returns'].rolling(window=24).std()
CalcVolatility ==
    /\ pc = "volatility"
    /\ df' = WithColumn(df, "Volatility", rolling_std(df.cols["Returns"], Window))
    /\ pc' = "volume_change"
    /\ UNCHANGED <<csv, loc, data, model, scaler, states, dec, report, figure,
                   err, stage>>

\* df['Volume_Change'] = df['volume'].pct_change()
CalcVolumeChange ==
    /\ pc = "volume_change"
    /\ IF "volume" \notin DOMAIN df.cols
       THEN Raise("KeyError", 33)
       ELSE /\ df' = WithColumn(df, "Volume_Change", pct_change(df.cols["volume"]))
            /\ pc' = "dropna"
            /\ UNCHANGED <<csv, loc, data, model, scaler, states, dec, report,
                           figure, err, stage>>

\* df.dropna(inplace=True)
DropNa ==
    /\ pc = "dropna"
    /\ df' = dropna(df)
    /\ pc' = "load_return"
    /\ UNCHANGED <<csv, loc, data, model, scaler, states, dec, report, figure,
                   err, stage>>

\* return df, and main's data = load_and_preprocess_data(file_path)
LoadReturn ==
    /\ pc = "load_return"
    /\ data' = df
    /\ df' = NoFrame
    /\ stage' = "FEATURED"
    /\ pc' = "train_check"
    /\ UNCHANGED <<csv, loc, model, scaler, states, dec, report, figure, err>>

(***************************************************************************)
(* train_hmm(data), called with the default n_components.                  *)
(***************************************************************************)
\* X = data[features].values, then the NaN/infinity check.
TrainCheck ==
    /\ pc = "train_check"
    /\ LET X == FeatureMatrix(data)
       IN IF HasNanOrInf(X)
          THEN Raise("ValueError", 49)
          ELSE /\ loc' = [X |-> X, scaler |-> Unfit, X_scaled |-> <<>>]
               /\ pc' = "train_scale"
               /\ UNCHANGED <<csv, df, data, model, scaler, states, dec, report,
                              figure, err, stage>>

\* scaler = StandardScaler(); X_scaled = scaler.fit_transform(X)
TrainScale ==
    /\ pc = "train_scale"
    /\ IF ScalerRejects(loc.X)
       THEN Raise("ValueError", 53)
       ELSE /\ loc' = [loc EXCEPT !.scaler = ScalerFit(loc.X),
                                  !.X_scaled = transform(ScalerFit(loc.X), loc.X)]
            /\ stage' = "STANDARDIZED"
            /\ pc' = "train_fit"
            /\ UNCHANGED <<csv, df, data, model, scaler, states, dec, report,
                           figure, err>>

\* model = hmm.GaussianHMM(...); model.fit(X_scaled); return model, scaler,
\* and main's model, scaler = train_hmm(data)
TrainFit ==
    /\ pc = "train_fit"
    /\ \E r \in FitOutcomes(GaussianHMM(NComponents), loc.X_scaled) :
          IF ~r.ok
          THEN Raise("ValueError", 68)
          ELSE /\ model' = r.model
               /\ scaler' = loc.scaler
               /\ loc' = NoLocals
               /\ stage' = "MODEL_FIT"
               /\ pc' = "predict"
               /\ UNCHANGED <<csv, df, data, states, dec, report, figure, err>>

(***************************************************************************)
(* predict_states(model, data, scaler)                                     *)
(***************************************************************************)
\* Faulty variants of predict_states: decoding the unscaled matrix, and
\* decoding a matrix that lost its first row.
predict_states_unscaled(m, d, sc) ==
    LET X == FeatureMatrix(d)
    IN {[states |-> s, X_scaled |-> X] : s \in Decodings(m, X)}

predict_states_shifted(m, d, sc) ==
    LET X == Tail(FeatureMatrix(d))
        Xs == transform(sc, X)
    IN {[states |-> s, X_scaled |-> Xs] : s \in Decodings(m, Xs)}

\* X = data[features].values; X_scaled = scaler.transform(X);
\* states = model.predict(X_scaled); return states
predict_states(m, d, sc) ==
    LET X == FeatureMatrix(d)
        Xs == transform(sc, X)
    IN {[states |-> s, X_scaled |-> Xs] : s \in Decodings(m, Xs)}

\* states = predict_states(model, data, scaler), then time.sleep(98789)
Predict ==
    /\ pc = "predict"
    /\ \E r \in predict_states(model, data, scaler) :
          /\ states' = r.states
          /\ dec' = [model |-> model, scaler |-> scaler, X_scaled |-> r.X_scaled]
    /\ stage' = "DECODED"
    /\ pc' = "analyze"
    /\ UNCHANGED <<csv, df, loc, data, model, scaler, report, figure, err>>

(***************************************************************************)
(* analyze_states(data, states) and plot_results(data, states): both loop  *)
(* over range(model.n_components), model being the module-level name.      *)
(***************************************************************************)
CountOf(s, st) == Cardinality({i \in 1..Len(s) : s[i] = st})

\* The bug of looping over the labels that occur instead of all n_components.
analyze_states_seen(d, s) ==
    [st \in {s[i] : i \in 1..Len(s)} |-> CountOf(s, st)]

\* "Number of periods in State {state}", for state in range(model.n_components)
analyze_states(d, s) ==
    [st \in 0..(model.n_components - 1) |-> CountOf(s, st)]

Analyze ==
    /\ pc = "analyze"
    /\ IF Len(states) # NRows(data)
       THEN Raise("ValueError", 93)
       ELSE IF model = Unbound
       THEN Raise("NameError", 95)
       ELSE /\ report' = [counts |-> analyze_states(data, states)]
            /\ stage' = "REPORTED"
            /\ pc' = "plot"
            /\ UNCHANGED <<csv, df, loc, data, model, scaler, states, dec,
                           figure, err>>

\* mask = (states == state), for state in range(model.n_components)
plot_results(d, s) ==
    [st \in 0..(model.n_components - 1) |-> [i \in 1..Len(s) |-> s[i] = st]]

Plot ==
    /\ pc = "plot"
    /\ IF model = Unbound
       THEN Raise("NameError", 110)
       ELSE /\ figure' = [masks |-> plot_results(data, states)]
            /\ pc' = "print_model"
            /\ UNCHANGED <<csv, df, loc, data, model, scaler, states, dec,
                           report, err, stage>>

\* print(model.transmat_) and the means and covariances of each state
PrintModel ==
    /\ pc = "print_model"
    /\ pc' = "done"
    /\ UNCHANGED <<csv, df, loc, data, model, scaler, states, dec, report,
                   figure, err, stage>>

Next ==
    \/ ReadCsv
    \/ ToDatetime
    \/ SetIndex
    \/ CalcReturns
    \/ CalcVolatility
    \/ CalcVolumeChange
    \/ DropNa
    \/ LoadReturn
    \/ TrainCheck
    \/ TrainScale
    \/ TrainFit
    \/ Predict
    \/ Analyze
    \/ Plot
    \/ PrintModel

Spec == Init /\ [][Next]_vars

(***************************************************************************)
(* Properties.                                                             *)
(***************************************************************************)
Bound(x) == x # Unbound

\* The input is a valid candle table: every required column is there and
\* no close or volume value is zero.
InputValid ==
    /\ RequiredCols \subseteq DOMAIN csv
    /\ \A i \in 1..CsvRows : csv["close"][i].v # 0 /\ csv["volume"][i].v # 0

AnyNonFinite(X) == \E i \in 1..Len(X) : \E j \in 1..Len(X[i]) : ~IsFinite(X[i][j])

ZeroVariance(X) ==
    \E j \in 1..Len(Features) : \A i \in 1..Len(X) : X[i][j] = X[1][j]

\* C1: for a valid input of N rows the feature table returned by
\* load_and_preprocess_data has N - 24 rows when N >= 25 and none when
\* N <= 24, and the rows kept are exactly the input rows from the 25th on.
C1_FeatureRowCount ==
    (Bound(data) /\ InputValid) =>
        /\ NRows(data) = (IF CsvRows >= 25 THEN CsvRows - 24 ELSE 0)
        /\ \A j \in 1..NRows(data) : data.index[j] = to_datetime(csv["datetime"][j + 24])

C1_Witness ==
    /\ Bound(data)
    /\ InputValid
    /\ CsvRows >= 26
    /\ NRows(data) = CsvRows - 24

\* C2: every row of the feature table returned by load_and_preprocess_data
\* has finite Returns, Volatility and Volume_Change, whatever the input,
\* zero volume or close values included.
C2_FeatureTableFinite ==
    Bound(data) => ~AnyNonFinite(FeatureMatrix(data))

\* C3: once the pipeline is DECODED the state sequence has one label per row
\* of the feature table the model was fit on, each label in 0..K-1 with K the
\* n_components of the trained model, 4 in the main flow.
C3_OneLabelPerRow ==
    (stage \in {"DECODED", "REPORTED"}) =>
        /\ Len(states) = NRows(data)
        /\ Len(states) = Len(model.train)
        /\ model.n_components = 4
        /\ \A i \in 1..Len(states) : states[i] \in 0..(model.n_components - 1)

C3_Witness ==
    /\ stage = "DECODED"
    /\ Len(states) = NRows(data)
    /\ \E i \in 1..Len(states) : states[i] = 0
    /\ \E i \in 1..Len(states) : states[i] = 3

\* C4: when a feature value passed to train_hmm is NaN or infinite, train_hmm
\* raises at its check, before the scaler is fit and before the HMM exists:
\* no scaler and no model are returned and no later stage runs.
C4_InvalidInputStopsTraining ==
    (Bound(data) /\ AnyNonFinite(FeatureMatrix(data)) /\ pc # "train_check") =>
        /\ pc = "aborted"
        /\ err = [type |-> "ValueError", line |-> 49]
        /\ loc = NoLocals
        /\ ~Bound(model) /\ ~Bound(scaler) /\ ~Bound(states)
        /\ ~Bound(dec) /\ ~Bound(report) /\ ~Bound(figure)
        /\ stage = "FEATURED"

C4_Witness ==
    /\ Bound(data)
    /\ \E i \in 1..NRows(data) : IsInf(data.cols["Volume_Change"][i])
    /\ err = [type |-> "ValueError", line |-> 49]
    /\ ~Bound(scaler)

\* C5: a feature table that is empty after dropna (an input of 24 rows, say)
\* makes the Feature Engine fail: the empty table is never returned to main
\* nor passed on to train_hmm.
C5_EmptyTableNeverReturned ==
    Bound(data) => NRows(data) > 0

\* C6: when a feature column has zero variance over the feature table the
\* Normalizer fails, and the pipeline never gets to the standardized matrix,
\* the fit or the decoding.
C6_ZeroVarianceStops ==
    (Bound(data) /\ NRows(data) > 0 /\ ZeroVariance(FeatureMatrix(data))) =>
        stage \notin {"STANDARDIZED", "MODEL_FIT", "DECODED", "REPORTED"}

\* C7: when a required column is absent the run fails before any feature
\* engineering: while the load is in progress the index is never set and no
\* derived column is ever computed, whichever column is the missing one.
C7_NoWorkBeforeFormatError ==
    (~(RequiredCols \subseteq DOMAIN csv) /\ df # NoFrame) =>
        /\ \A i \in 1..NRows(df) : df.index[i].k = "range"
        /\ DOMAIN df.cols \cap {"Returns", "Volatility", "Volume_Change"} = {}

\* C8: the stage only moves forward, one stage at a time, so each stage is
\* entered at most once and only from its predecessor; once an exception
\* is raised nothing runs and no stage is entered.
C8_ForwardOnly ==
    [][/\ stage' # stage =>
            (Rank(stage') = Rank(stage) + 1 /\ err = NoErr /\ err' = NoErr)
       /\ err # NoErr => (pc' = pc /\ stage' = stage)]_vars

C8_Witness ==
    /\ pc = "done"
    /\ stage = "REPORTED"
    /\ err = NoErr

\* C9: predict_states leaves the scaler, the model and the feature table as
\* they were, and the matrix it decodes is the matrix the model was fit on:
\* the same rows standardized with the statistics fitted in train_hmm.
C9_DecodeReusesScaler ==
    [][pc = "predict" =>
          /\ scaler' = scaler /\ model' = model /\ data' = data
          /\ dec'.scaler = scaler
          /\ dec'.model = model
          /\ dec'.X_scaled = model.train]_vars

C9_Witness ==
    /\ stage = "DECODED"
    /\ dec.scaler = scaler
    /\ dec.X_scaled = model.train
    /\ \A j \in 1..Len(Features) : scaler.scale[j] # FP
    /\ \E j \in 1..Len(Features) : scaler.mean[j] # 0

\* C10: whenever analyze_states or plot_results runs, the module-level model
\* is bound to the model train_hmm returned, the one predict_states used, and
\* their loops cover exactly the labels 0..K-1 the state sequence can hold.
C10_ReportersSeeTrainedModel ==
    /\ pc \in {"analyze", "plot"} =>
          /\ Bound(model)
          /\ model.fitted
          /\ model = dec.model
          /\ \A i \in 1..Len(states) : states[i] \in 0..(model.n_components - 1)
    /\ Bound(report) => DOMAIN report.counts = 0..(dec.model.n_components - 1)
    /\ Bound(figure) => DOMAIN figure.masks = 0..(dec.model.n_components - 1)
    /\ err.type # "NameError"

C10_Witness ==
    /\ pc = "plot"
    /\ Bound(report)
    /\ \E st \in DOMAIN report.counts : report.counts[st] = 0
    /\ \E st \in DOMAIN report.counts : report.counts[st] > 1

====
